---- MODULE Spec2Model ----
(***************************************************************************)
(* Model of the digwebs WSGI dispatch pipeline (src/www/web.py): the       *)
(* application object, the middleware chain built by get_wsgi_application, *)
(* and the per-request wsgi callable with its thread-local context.        *)
(* Text is a sequence of code points, a byte string a sequence of bytes.   *)
(***************************************************************************)
EXTENDS Integers, Sequences, FiniteSets, TLC

\* ------------------------------------------------------------------ bounds
MaxMiddleware == 2      \* longest middleware list
MaxTraceLen == 1        \* longest traceback text

Threads == {1, 2}       \* request-handling threads of the server

\* --------------------------------------------------------- text and bytes
LT == 60                \* '<'
GT == 62                \* '>'
PlainText == <<97>>                 \* 'a'
AccentText == <<97, 233>>           \* 'a' and a non-ASCII code point

AmpLt == <<38, 108, 116, 59>>                      \* '&lt;'
AmpGt == <<38, 103, 116, 59>>                      \* '&gt;'
StatusOK == <<50, 48, 48, 32, 79, 75>>             \* '200 OK'
StatusFound == <<51, 48, 50, 32, 70, 111, 117, 110, 100>>   \* '302 Found'
StatusNotFound == <<52, 48, 52, 32, 78, 111, 116, 32, 70, 111, 117, 110, 100>>
Status500 == <<53, 48, 48, 32, 73, 110, 116, 101, 114, 110, 97, 108, 32,
               83, 101, 114, 118, 101, 114, 32, 69, 114, 114, 111, 114>>
LocationName == <<76, 111, 99, 97, 116, 105, 111, 110>>     \* 'Location'
LoginPath == <<47, 108, 111, 103, 105, 110>>                \* '/login'
XReqName == <<88, 45, 82, 101, 113>>                        \* 'X-Req'
HtmlOpenH1 == <<60, 104, 116, 109, 108, 62, 60, 98, 111, 100, 121, 62,
                60, 104, 49, 62>>                  \* '<html><body><h1>'
HtmlCloseH1 == <<60, 47, 104, 49, 62, 60, 47, 98, 111, 100, 121, 62,
                 60, 47, 104, 116, 109, 108, 62>>  \* '</h1></body></html>'
Html500Open == HtmlOpenH1 \o Status500 \o
    <<60, 47, 104, 49, 62, 60, 100, 105, 118, 32, 115, 116, 121, 108, 101,
      61, 34, 102, 111, 110, 116, 45, 102, 97, 109, 105, 108, 121, 58, 77,
      111, 110, 97, 99, 111, 44, 32, 77, 101, 110, 108, 111, 44, 32, 67,
      111, 110, 115, 111, 108, 97, 115, 44, 32, 39, 67, 111, 117, 114, 105,
      101, 114, 32, 78, 101, 119, 39, 44, 32, 109, 111, 110, 111, 115, 112,
      97, 99, 101, 59, 34, 62, 60, 112, 114, 101, 62>>
Html500Close == <<60, 47, 112, 114, 101, 62, 60, 47, 100, 105, 118, 62,
                  60, 47, 98, 111, 100, 121, 62, 60, 47, 104, 116, 109,
                  108, 62>>                        \* '</pre></div></body></html>'

\* A body chunk: a text string (str) or a byte string (bytes).
StrChunk(text) == [type |-> "str", data |-> text]
BytesChunk(bytes) == [type |-> "bytes", data |-> bytes]

\* str.replace(old, new) for a one-character old.
RECURSIVE Replace(_, _, _)
Replace(s, old, new) ==
    IF s = <<>> THEN <<>>
    ELSE (IF Head(s) = old THEN new ELSE <<Head(s)>>) \o Replace(Tail(s), old, new)

\* stacks.replace('<', '&lt;').replace('>', '&gt;')
EscapeOnlyLt(s) == Replace(s, LT, AmpLt)
EscapeTrace(s) == Replace(Replace(s, LT, AmpLt), GT, AmpGt)

\* str.encode('utf-8'), code points below 2048.
Utf8Char(c) == IF c < 128 THEN <<c>> ELSE <<192 + (c \div 64), 128 + (c % 64)>>
RECURSIVE Utf8Encode(_)
Utf8Encode(s) == IF s = <<>> THEN <<>> ELSE Utf8Char(Head(s)) \o Utf8Encode(Tail(s))

RECURSIVE SeqsUpTo(_, _)
SeqsUpTo(S, n) ==
    IF n = 0 THEN {<<>>}
    ELSE LET shorter == SeqsUpTo(S, n - 1)
         IN shorter \cup {Append(s, x) : s \in shorter, x \in S}

\* The texts traceback.print_exception can write.
TraceTexts == SeqsUpTo({LT, GT, 97}, MaxTraceLen)

\* ------------------------------------------------------- values and errors
\* What a middleware can return: None, a str, a Template, a list of chunks, or
\* a generator that produces its chunks when the server iterates over it.
NoneValue == [kind |-> "none", text |-> <<>>, model |-> <<>>, chunks |-> <<>>]
StrValue(s) == [kind |-> "str", text |-> s, model |-> <<>>, chunks |-> <<>>]
TemplateValue(name, model) ==
    [kind |-> "template", text |-> name, model |-> model, chunks |-> <<>>]
ListValue(chunks) == [kind |-> "list", text |-> <<>>, model |-> <<>>, chunks |-> chunks]
GenValue(chunks) == [kind |-> "gen", text |-> <<>>, model |-> <<>>, chunks |-> chunks]

ReturnValues ==
    { NoneValue,
      StrValue(AccentText),
      TemplateValue(PlainText, AccentText),
      ListValue(<<BytesChunk(PlainText)>>),
      GenValue(<<BytesChunk(PlainText)>>) }

\* The value a post-processing middleware returns instead of its continuation's
\* result, and the value a catching middleware returns after a failure.
PostProcessed == StrValue(PlainText)
Recovered == StrValue(<<>>)

\* Raised objects: cls is the class of the exception.
RedirectError(location, status) ==
    [cls |-> "RedirectError", status |-> status, location |-> location]
HttpError(status) == [cls |-> "HttpError", status |-> status, location |-> <<>>]
OtherError(cls) == [cls |-> cls, status |-> <<>>, location |-> <<>>]
NoError == OtherError("none")

Raisable ==
    { RedirectError(LoginPath, StatusFound),
      HttpError(StatusNotFound),
      OtherError("Exception") }

\* The template engine: its rendering of (template_name, model) as text.
Render(name, model) == name \o model

\* The Response object: status line and ordered header pairs.
NewResponse == [status |-> StatusOK, headers |-> <<>>]
SetHeader(headers, name, value) ==
    IF \E j \in DOMAIN headers : headers[j][1] = name
    THEN [j \in DOMAIN headers |->
             IF headers[j][1] = name THEN <<name, value>> ELSE headers[j]]
    ELSE Append(headers, <<name, value>>)

\* --------------------------------------------------------------- middleware
\* A middleware entry is the pair (fn, priority); fn is the kind of function:
\*   pass   sets a header on context.response, calls its continuation once
\*          and returns its result unchanged
\*   post   calls its continuation once and returns another value
\*   catch  calls its continuation once inside try/except Exception
\*   short  returns a value without calling its continuation
\*   raise  raises without calling its continuation
CallingKinds == {"pass", "post", "catch"}
Kinds == CallingKinds \cup {"short", "raise"}
Priorities == {1, 2}
Entries == [fn : Kinds, prio : Priorities]

take_second(elem) == elem.prio

\* list.sort(key=take_second): a stable sort, ascending.
RECURSIVE InsertBeforeEqual(_, _)
InsertBeforeEqual(sorted, e) ==
    IF sorted = <<>> THEN <<e>>
    ELSE IF take_second(e) <= take_second(Head(sorted))
         THEN <<e>> \o sorted
         ELSE <<Head(sorted)>> \o InsertBeforeEqual(Tail(sorted), e)
RECURSIVE InsertByKey(_, _)
InsertByKey(sorted, e) ==
    IF sorted = <<>> THEN <<e>>
    ELSE IF take_second(e) < take_second(Head(sorted))
         THEN <<e>> \o sorted
         ELSE <<Head(sorted)>> \o InsertByKey(Tail(sorted), e)
RECURSIVE SortByKey(_)
SortByKey(s) ==
    IF s = <<>> THEN <<>>
    ELSE InsertByKey(SortByKey(SubSeq(s, 1, Len(s) - 1)), s[Len(s)])

\* ------------------------------------------------------------------- state
VARIABLES
    running,      \* self._running
    middleware,   \* self.middleware
    ctx,          \* the threading.local object: slot -> its three attributes
    respObj,      \* the Response object made by each thread's current wsgi call
    pc,           \* where each thread's wsgi call stands
    idx,          \* the argument i of the dispatch call in progress
    stack,        \* middleware indices waiting for their continuation to return
    retval,       \* the value being returned through the chain (r in wsgi)
    exc,          \* the exception being raised through the chain
    trace,        \* the indices whose middleware was invoked for the request
    seenReq,      \* what the last read of context.request returned
    shortAt,      \* the index and value of the middleware that short-circuited
    logs,         \* logging.exception calls of the request
    released,     \* how often each context attribute was deleted
    started,      \* the start_response calls of the request
    body,         \* the chunks of the body the transport has received
    pending,      \* the chunks of a returned generator not yet drawn from it
    stacks,       \* the traceback text written by print_exception
    outcome,      \* how the request ended
    registered,   \* per priority, the entries appended so far, in append order
    template_engine,  \* self._template_engine
    lastCall,     \* the last call on the application object and what it raised
    attrs,        \* __web_method__ and __web_route__ of each handler function
    lastResult    \* the last use of a decorator or call of a handler, and its result

\* The state of the wsgi calls in progress, and what the application keeps
\* beside running and middleware.
wsgiVars == <<ctx, respObj, pc, idx, stack, retval, exc, trace, seenReq, shortAt,
              logs, released, started, body, pending, stacks, outcome>>
appVars == <<registered, template_engine, lastCall>>
decoVars == <<attrs, lastResult>>

vars == <<running, middleware, wsgiVars, appVars, decoVars>>

\* An attribute that is not set on the thread-local object.
NoAttr == 0
AppObject == 1
EmptyCtx == [application |-> NoAttr, request |-> NoAttr, response |-> NoAttr]
TerminalMark == -1

\* threading.local keeps one attribute dictionary per thread.
SharedSlot(t) == 1
CtxSlot(t) == t

\* The index i is a parameter of dispatch: one per call, held by no shared object.
SharedIndex(t) == 1
IdxSlot(t) == t

\* __init__ sets the engine to a Jinja2TemplateEngine; a caller may set another.
Jinja2TemplateEngine == "Jinja2TemplateEngine"
Engines == {Jinja2TemplateEngine, "other engine"}

\* A call on the application object: the method, and the error it raised.
Call(op, err) == [op |-> op, err |-> err]

\* ---------------------------------------------------------------- decorators
\* A dict, by its keys: a key is a str or, here, an int.
StrKey == [type |-> "str", name |-> <<110>>]
IntKey == [type |-> "int", name |-> <<49>>]
DictValue(keys) == [kind |-> "dict", text |-> <<>>, model |-> keys, chunks |-> <<>>]

\* The functions handed to the decorators, and what each returns when called.
RouteHandlers == {"hello", "hello2"}
ViewHandlers == RouteHandlers \cup {"numbered", "text", "nothing"}
HandlerReturns(h) ==
    CASE h = "hello" -> DictValue(<<StrKey>>)
      [] h = "hello2" -> ListValue(<<BytesChunk(PlainText)>>)
      [] h = "numbered" -> DictValue(<<StrKey, IntKey>>)
      [] h = "text" -> StrValue(PlainText)
      [] h = "nothing" -> NoneValue
Paths == {LoginPath, PlainText}

\* get, post, put, delete: the value each assigns to func.__web_method__.
Decorators == {"get", "post", "put", "delete"}
PutStampsPost(dec) ==
    CASE dec = "get" -> "GET"
      [] dec = "post" -> "POST"
      [] dec = "put" -> "POST"
      [] dec = "delete" -> "DELETE"
MethodToken(dec) ==
    CASE dec = "get" -> "GET"
      [] dec = "post" -> "POST"
      [] dec = "put" -> "PUT"
      [] dec = "delete" -> "DELETE"

\* The two attributes of a function: "" and <<>> when they are not set.
Stamp(method, route) == [method |-> method, route |-> route]
NoStamp == Stamp("", <<>>)

\* A use of a decorator or a call: the operation, the function it was given,
\* the path, and what came back: a function, a value, or an exception.
Result(op, fn, path, returnedFn, value, err) ==
    [op |-> op, fn |-> fn, path |-> path, returnedFn |-> returnedFn,
     value |-> value, err |-> err]
NoResult == Result("none", "", <<>>, "", NoneValue, "none")

\* _wrapper of view(path), for the value r that func returned: Template(path, **r)
\* passes the items of r as keyword arguments, whose names must be str.
ViewWrapper(path, r) ==
    IF r.kind # "dict"
    THEN [value |-> NoneValue, err |-> "ValueError"]
    ELSE IF \E j \in DOMAIN r.model : r.model[j].type # "str"
         THEN [value |-> NoneValue, err |-> "TypeError"]
         ELSE [value |-> TemplateValue(path, r.model), err |-> "none"]

\* @get(path), @post(path), @put(path), @delete(path) applied to func.
Decorate(dec, path, func) ==
    /\ attrs' = [attrs EXCEPT ![func] = Stamp(MethodToken(dec), path)]
    /\ lastResult' = Result(dec, func, path, func, NoneValue, "none")
    /\ UNCHANGED <<running, middleware, wsgiVars, appVars>>

\* A call of a function that went through get, post, put or delete: the
\* decorator returned func itself, so this is a call of func.
CallHandler(func) ==
    /\ lastResult' = Result("call", func, <<>>, "", HandlerReturns(func), "none")
    /\ UNCHANGED <<attrs, running, middleware, wsgiVars, appVars>>

\* A call of view(path)(func).
CallView(path, func) ==
    /\ LET w == ViewWrapper(path, HandlerReturns(func))
       IN lastResult' = Result("view", func, path, "", w.value, w.err)
    /\ UNCHANGED <<attrs, running, middleware, wsgiVars, appVars>>

NoShort == [at |-> -1, value |-> NoneValue]
NoReleases == [f \in {"application", "request", "response"} |-> 0]

Init ==
    /\ running = FALSE
    /\ middleware = <<>>
    /\ ctx = [s \in Threads |-> EmptyCtx]
    /\ respObj = [t \in Threads |-> NewResponse]
    /\ pc = [t \in Threads |-> "idle"]
    /\ idx = [s \in Threads |-> 0]
    /\ stack = [t \in Threads |-> <<>>]
    /\ retval = [t \in Threads |-> NoneValue]
    /\ exc = [t \in Threads |-> NoError]
    /\ trace = [t \in Threads |-> <<>>]
    /\ seenReq = [t \in Threads |-> NoAttr]
    /\ shortAt = [t \in Threads |-> NoShort]
    /\ logs = [t \in Threads |-> 0]
    /\ released = [t \in Threads |-> NoReleases]
    /\ started = [t \in Threads |-> <<>>]
    /\ body = [t \in Threads |-> <<>>]
    /\ pending = [t \in Threads |-> <<>>]
    /\ stacks = [t \in Threads |-> <<>>]
    /\ outcome = [t \in Threads |-> "none"]
    /\ registered = [p \in Priorities |-> <<>>]
    /\ template_engine = Jinja2TemplateEngine
    /\ lastCall = Call("__init__", "none")
    /\ attrs = [h \in RouteHandlers |-> NoStamp]
    /\ lastResult = NoResult

\* ------------------------------------------------------------ application
\* _check_not_running: what it raises.
check_nothing(is_running) == "none"
check_not_running(is_running) == IF is_running THEN "RuntimeError" ELSE "none"

\* The entries of s with priority p, in the order of s.
WithPriority(s, p) == SelectSeq(s, LAMBDA e : take_second(e) = p)

\* init_middlewares: append what the middlewares directory holds, then sort.
\* Nothing in it looks at _running.
InitMiddlewares ==
    \E found \in SeqsUpTo(Entries, MaxMiddleware) :
        /\ Len(middleware) + Len(found) <= MaxMiddleware
        /\ middleware' = SortByKey(middleware \o found)
        /\ registered' = [p \in Priorities |-> registered[p] \o WithPriority(found, p)]
        /\ lastCall' = Call("init_middlewares", "none")
        /\ UNCHANGED <<running, template_engine, wsgiVars, decoVars>>

\* get_wsgi_application: _check_not_running, then _running = True.
GetWsgiApplication ==
    LET err == check_not_running(running)
    IN /\ running' = (IF err = "none" THEN TRUE ELSE running)
       /\ lastCall' = Call("get_wsgi_application", err)
       /\ UNCHANGED <<middleware, registered, template_engine, wsgiVars, decoVars>>

\* template_engine = engine: _check_not_running, then _template_engine = engine.
SetTemplateEngine ==
    \E engine \in Engines :
        LET err == check_not_running(running)
        IN /\ template_engine' = (IF err = "none" THEN engine ELSE template_engine)
           /\ lastCall' = Call("template_engine", err)
           /\ UNCHANGED <<running, middleware, registered, wsgiVars, decoVars>>

\* ------------------------------------------------------------------- wsgi
\* wsgi, up to the call fn_exec(ctx, None) -> route_entry -> dispatch(0).
BeginRequest(t) ==
    /\ running
    /\ pc[t] = "idle"
    /\ ctx' = [ctx EXCEPT ![CtxSlot(t)] =
                 [application |-> AppObject, request |-> t, response |-> t]]
    /\ respObj' = [respObj EXCEPT ![t] = NewResponse]
    /\ idx' = [idx EXCEPT ![IdxSlot(t)] = 0]
    /\ pc' = [pc EXCEPT ![t] = "call"]
    /\ UNCHANGED <<running, middleware, stack, retval, exc, trace, seenReq,
                   shortAt, logs, released, started, body, stacks, outcome>>
    /\ UNCHANGED <<pending, appVars, decoVars>>

\* wsgi fails before its try statement: Request(env) or Response() raises, with
\* ctx.application (and ctx.request) already assigned; the exception leaves wsgi.
BeginRequestFails(t) ==
    /\ running
    /\ pc[t] = "idle"
    /\ \E failing \in {"Request", "Response"} :
          ctx' = [ctx EXCEPT ![CtxSlot(t)] =
                     [application |-> AppObject,
                      request |-> IF failing = "Response" THEN t ELSE @.request,
                      response |-> @.response]]
    /\ UNCHANGED <<running, middleware, respObj, pc, idx, stack, retval, exc, trace,
                   seenReq, shortAt, logs, released, started, body, pending, stacks,
                   outcome>>
    /\ UNCHANGED <<appVars, decoVars>>

\* dispatch(i), up to the call of fn: what fn is, or the error of the lookup.
DispatchFn(t) ==
    LET i == idx[IdxSlot(t)]
    IN IF i >= Len(middleware)
       THEN "IndexError"                       \* self.middleware[i] is out of range
       ELSE IF i = Len(middleware) THEN "next" ELSE middleware[i + 1].fn

\* dispatch(i) with no middleware at i: the lookup raises (and fn = next, which
\* wsgi passes as None, would raise when called).
DispatchFails(t) ==
    /\ pc[t] = "call"
    /\ DispatchFn(t) \in {"IndexError", "next"}
    /\ trace' = [trace EXCEPT ![t] =
                   IF DispatchFn(t) = "next" THEN Append(@, TerminalMark) ELSE @]
    /\ exc' = [exc EXCEPT ![t] =
                 OtherError(IF DispatchFn(t) = "next" THEN "TypeError" ELSE "IndexError")]
    /\ pc' = [pc EXCEPT ![t] = "exc"]
    /\ UNCHANGED <<running, middleware, ctx, respObj, idx, stack, retval, seenReq, shortAt, logs, released, started, body,
                   stacks, outcome>>
    /\ UNCHANGED <<pending, appVars, decoVars>>

\* Every middleware reads context.request when it is invoked.
Invoked(t) ==
    /\ trace' = [trace EXCEPT ![t] = Append(@, idx[IdxSlot(t)])]
    /\ seenReq' = [seenReq EXCEPT ![t] = ctx[CtxSlot(t)].request]

\* A middleware that calls its continuation: lambda: dispatch(i + 1).
MwCallNext(t) ==
    /\ pc[t] = "call"
    /\ DispatchFn(t) \in CallingKinds
    /\ Invoked(t)
    /\ stack' = [stack EXCEPT ![t] = Append(@, idx[IdxSlot(t)])]
    /\ idx' = [idx EXCEPT ![IdxSlot(t)] = @ + 1]
    /\ LET ref == ctx[CtxSlot(t)].response
       IN respObj' =
            IF DispatchFn(t) = "pass" /\ ref # NoAttr
            THEN [respObj EXCEPT ![ref].headers =
                     SetHeader(@, XReqName, <<48 + ctx[CtxSlot(t)].request>>)]
            ELSE respObj
    /\ UNCHANGED <<running, middleware, ctx, pc, retval, exc, shortAt, logs, released, started, body, stacks, outcome>>
    /\ UNCHANGED <<pending, appVars, decoVars>>

\* return fn(context, lambda: dispatch(i + 1)): what dispatch hands back.
DropResult(v) == NoneValue
DispatchResult(v) == v

\* A middleware that returns without calling its continuation.
MwShortCircuit(t) ==
    /\ pc[t] = "call"
    /\ DispatchFn(t) = "short"
    /\ Invoked(t)
    /\ \E v \in ReturnValues :
          /\ retval' = [retval EXCEPT ![t] = DispatchResult(v)]
          /\ shortAt' = [shortAt EXCEPT ![t] = [at |-> idx[IdxSlot(t)], value |-> v]]
    /\ pc' = [pc EXCEPT ![t] = "ret"]
    /\ UNCHANGED <<running, middleware, ctx, respObj, idx, stack, exc, logs, released, started, body, stacks, outcome>>
    /\ UNCHANGED <<pending, appVars, decoVars>>

\* A middleware that raises.
MwRaise(t) ==
    /\ pc[t] = "call"
    /\ DispatchFn(t) = "raise"
    /\ Invoked(t)
    /\ \E e \in Raisable : exc' = [exc EXCEPT ![t] = e]
    /\ pc' = [pc EXCEPT ![t] = "exc"]
    /\ UNCHANGED <<running, middleware, ctx, respObj, idx, stack, retval, shortAt, logs, released, started, body, stacks, outcome>>
    /\ UNCHANGED <<pending, appVars, decoVars>>

\* A continuation returns into the middleware that called it.
MwReturn(t) ==
    /\ pc[t] = "ret"
    /\ stack[t] # <<>>
    /\ LET k == stack[t][Len(stack[t])]
       IN retval' = [retval EXCEPT ![t] =
                        IF middleware[k + 1].fn = "post"
                        THEN DispatchResult(PostProcessed)
                        ELSE DispatchResult(@)]
    /\ stack' = [stack EXCEPT ![t] = SubSeq(@, 1, Len(@) - 1)]
    /\ UNCHANGED <<running, middleware, ctx, respObj, pc, idx, exc, trace, seenReq, shortAt, logs, released, started, body,
                   stacks, outcome>>
    /\ UNCHANGED <<pending, appVars, decoVars>>

\* An exception leaves a continuation into the middleware that called it.
MwUnwind(t) ==
    /\ pc[t] = "exc"
    /\ stack[t] # <<>>
    /\ LET k == stack[t][Len(stack[t])]
       IN IF middleware[k + 1].fn = "catch"
          THEN /\ retval' = [retval EXCEPT ![t] = DispatchResult(Recovered)]
               /\ exc' = [exc EXCEPT ![t] = NoError]
               /\ pc' = [pc EXCEPT ![t] = "ret"]
          ELSE UNCHANGED <<retval, exc, pc>>
    /\ stack' = [stack EXCEPT ![t] = SubSeq(@, 1, Len(@) - 1)]
    /\ UNCHANGED <<running, middleware, ctx, respObj, idx, trace,
                   seenReq, shortAt, logs, released, started, body, stacks, outcome>>
    /\ UNCHANGED <<pending, appVars, decoVars>>

\* finally: the del statements, in order; del of an attribute that is not set
\* raises AttributeError, which leaves wsgi, and the remaining statements do
\* not run.
KeepsResponse == <<"application", "request">>
ReleasedFields == <<"application", "request", "response">>

RECURSIVE DelAttrs(_, _, _)
DelAttrs(c, fs, deleted) ==
    IF fs = <<>> \/ c[Head(fs)] = NoAttr
    THEN [ctx |-> c, deleted |-> deleted, ok |-> (fs = <<>>)]
    ELSE DelAttrs([c EXCEPT ![Head(fs)] = NoAttr], Tail(fs), deleted \cup {Head(fs)})

\* The finally clause, run as wsgi leaves the try statement with `result`.
Finally(t, result) ==
    /\ LET d == DelAttrs(ctx[CtxSlot(t)], ReleasedFields, {})
       IN /\ ctx' = [ctx EXCEPT ![CtxSlot(t)] = d.ctx]
          /\ released' = [released EXCEPT ![t] =
                [f \in DOMAIN @ |-> @[f] + (IF f \in d.deleted THEN 1 ELSE 0)]]
          /\ outcome' = [outcome EXCEPT ![t] = IF d.ok THEN result ELSE "Propagated"]
    /\ pc' = [pc EXCEPT ![t] = "done"]

\* The rules with the rendering left as text, so that the str rule takes it too.
TranslateTwice(r) ==
    LET r1 == IF r.kind = "template" THEN StrValue(Render(r.text, r.model)) ELSE r
        r2 == IF r1.kind = "str"
              THEN ListValue(<<BytesChunk(Utf8Encode(r1.text))>>)
              ELSE r1
    IN IF r2.kind = "none" THEN ListValue(<<>>) ELSE r2

\* The three rules of wsgi for the value r the chain returned, in code order.
TranslateResult(r) ==
    LET r1 == IF r.kind = "template"
              THEN ListValue(<<StrChunk(Render(r.text, r.model))>>)
              ELSE r
        r2 == IF r1.kind = "str"
              THEN ListValue(<<BytesChunk(Utf8Encode(r1.text))>>)
              ELSE r1
        r3 == IF r2.kind = "none" THEN ListValue(<<>>) ELSE r2
    IN r3

\* start_response(status, headers): one call of the transport's callable.
StartResponseTwice(t, status, headers) ==
    started' = [started EXCEPT ![t] =
                   @ \o <<[status |-> status, headers |-> headers],
                          [status |-> status, headers |-> headers]>>]
StartResponse(t, status, headers) ==
    started' = [started EXCEPT ![t] = Append(@, [status |-> status, headers |-> headers])]

\* The try body after the chain returned: translate r, start_response, return r.
\* The template engine may raise instead of rendering.
Translate(t) ==
    /\ pc[t] = "ret"
    /\ stack[t] = <<>>
    /\ \/ /\ StartResponse(t, respObj[t].status, respObj[t].headers)
          /\ LET r == TranslateResult(retval[t])
             IN /\ body' = [body EXCEPT ![t] = IF r.kind = "gen" THEN <<>> ELSE r.chunks]
                /\ pending' = [pending EXCEPT ![t] = IF r.kind = "gen" THEN r.chunks ELSE <<>>]
          /\ Finally(t, "Completed")
          /\ UNCHANGED exc
       \/ /\ retval[t].kind = "template"
          /\ exc' = [exc EXCEPT ![t] = OtherError("Exception")]
          /\ pc' = [pc EXCEPT ![t] = "exc"]
          /\ UNCHANGED <<started, body, pending, outcome, ctx, released>>
    /\ UNCHANGED <<running, middleware, respObj, idx, stack, retval, trace,
                   seenReq, shortAt, logs, stacks>>
    /\ UNCHANGED <<appVars, decoVars>>

\* The except clause that takes an exception: the first that matches.
HttpErrorClauseFirst(e) ==
    IF e.cls \in {"RedirectError", "HttpError"} THEN "HttpError" ELSE "Exception"
ExceptClause(e) ==
    IF e.cls = "RedirectError" THEN "RedirectError"
    ELSE IF e.cls = "HttpError" THEN "HttpError"
    ELSE "Exception"

\* Only the last clause calls logging.exception.
LogHttpErrorsToo(clause) == IF clause \in {"HttpError", "Exception"} THEN 1 ELSE 0
LogCalls(clause) == IF clause = "Exception" THEN 1 ELSE 0

\* except RedirectError: the status line passed to start_response.
ResponseStatus(e, response) == response.status
RedirectStatus(e, response) == e.status

ExceptRedirect(t) ==
    /\ pc[t] = "exc"
    /\ stack[t] = <<>>
    /\ ExceptClause(exc[t]) = "RedirectError"
    /\ respObj' = [respObj EXCEPT ![t].headers =
                      SetHeader(@, LocationName, exc[t].location)]
    /\ StartResponse(t, RedirectStatus(exc[t], respObj[t]), respObj'[t].headers)
    /\ body' = [body EXCEPT ![t] = <<>>]
    /\ logs' = [logs EXCEPT ![t] = @ + LogCalls("RedirectError")]
    /\ Finally(t, "Redirected")
    /\ UNCHANGED <<running, middleware, idx, stack, retval, exc, trace, seenReq,
                   shortAt, stacks>>
    /\ UNCHANGED <<pending, appVars, decoVars>>

\* except HttpError: the body returned.
HttpErrorBodyNoStatus(e) == <<StrChunk(HtmlOpenH1), StrChunk(HtmlCloseH1)>>
HttpErrorBody(e) == <<StrChunk(HtmlOpenH1), StrChunk(e.status), StrChunk(HtmlCloseH1)>>

ExceptHttp(t) ==
    /\ pc[t] = "exc"
    /\ stack[t] = <<>>
    /\ ExceptClause(exc[t]) = "HttpError"
    /\ StartResponse(t, exc[t].status, respObj[t].headers)
    /\ body' = [body EXCEPT ![t] = HttpErrorBody(exc[t])]
    /\ logs' = [logs EXCEPT ![t] = @ + LogCalls("HttpError")]
    /\ Finally(t, "DeclaredError")
    /\ UNCHANGED <<running, middleware, respObj, idx, stack, retval, exc, trace,
                   seenReq, shortAt, stacks>>
    /\ UNCHANGED <<pending, appVars, decoVars>>

\* except Exception: the body returned for the traceback text.
FaultBody(text) ==
    <<StrChunk(Html500Open), StrChunk(EscapeTrace(text)), StrChunk(Html500Close)>>

\* except Exception: the headers passed to start_response.
FaultHeaders(response) == <<>>

ExceptException(t) ==
    /\ pc[t] = "exc"
    /\ stack[t] = <<>>
    /\ ExceptClause(exc[t]) = "Exception"
    /\ logs' = [logs EXCEPT ![t] = @ + LogCalls("Exception")]
    /\ \E text \in TraceTexts :
          /\ stacks' = [stacks EXCEPT ![t] = text]
          /\ body' = [body EXCEPT ![t] = FaultBody(text)]
    /\ StartResponse(t, Status500, FaultHeaders(respObj[t]))
    /\ Finally(t, "Faulted")
    /\ UNCHANGED <<running, middleware, respObj, idx, stack, retval, exc, trace,
                   seenReq, shortAt>>
    /\ UNCHANGED <<pending, appVars, decoVars>>

\* The server iterates over what wsgi returned: a generator runs now, after
\* wsgi and its finally clause, one chunk at each step.
ProduceChunk(t) ==
    /\ pc[t] = "done"
    /\ pending[t] # <<>>
    /\ body' = [body EXCEPT ![t] = Append(@, Head(pending[t]))]
    /\ pending' = [pending EXCEPT ![t] = Tail(@)]
    /\ UNCHANGED <<running, middleware, ctx, respObj, pc, idx, stack, retval, exc,
                   trace, seenReq, shortAt, logs, released, started, stacks, outcome>>
    /\ UNCHANGED <<appVars, decoVars>>

\* The server has sent the response; the thread waits for its next request.
EndRequest(t) ==
    /\ pc[t] = "done"
    /\ pending[t] = <<>>
    /\ pc' = [pc EXCEPT ![t] = "idle"]
    /\ respObj' = [respObj EXCEPT ![t] = NewResponse]
    /\ stack' = [stack EXCEPT ![t] = <<>>]
    /\ retval' = [retval EXCEPT ![t] = NoneValue]
    /\ exc' = [exc EXCEPT ![t] = NoError]
    /\ trace' = [trace EXCEPT ![t] = <<>>]
    /\ seenReq' = [seenReq EXCEPT ![t] = NoAttr]
    /\ shortAt' = [shortAt EXCEPT ![t] = NoShort]
    /\ logs' = [logs EXCEPT ![t] = 0]
    /\ released' = [released EXCEPT ![t] = NoReleases]
    /\ started' = [started EXCEPT ![t] = <<>>]
    /\ body' = [body EXCEPT ![t] = <<>>]
    /\ stacks' = [stacks EXCEPT ![t] = <<>>]
    /\ outcome' = [outcome EXCEPT ![t] = "none"]
    /\ UNCHANGED <<running, middleware, ctx, idx>>
    /\ UNCHANGED <<pending, appVars, decoVars>>

\* ------------------------------------------------------------ specification
\* The application is set up (init_middlewares), built (get_wsgi_application)
\* and then serves requests on the server's threads.
Next ==
    \/ (~running /\ InitMiddlewares)
    \/ (~running /\ GetWsgiApplication)
    \/ \E t \in Threads :
          \/ BeginRequest(t)
          \/ BeginRequestFails(t)
          \/ DispatchFails(t)
          \/ MwCallNext(t)
          \/ MwShortCircuit(t)
          \/ MwRaise(t)
          \/ MwReturn(t)
          \/ MwUnwind(t)
          \/ Translate(t)
          \/ ExceptRedirect(t)
          \/ ExceptHttp(t)
          \/ ExceptException(t)
          \/ ProduceChunk(t)
          \/ EndRequest(t)

Spec == Init /\ [][Next]_vars

\* The calls a program can make on the application object, in any order.
NextApp ==
    \/ InitMiddlewares
    \/ GetWsgiApplication
    \/ SetTemplateEngine

SpecApp == Init /\ [][NextApp]_vars

\* The decorators applied to handler functions, and calls of the results.
NextDecorators ==
    \/ \E dec \in Decorators, path \in Paths, func \in RouteHandlers :
          Decorate(dec, path, func)
    \/ \E func \in RouteHandlers : CallHandler(func)
    \/ \E path \in Paths, func \in ViewHandlers : CallView(path, func)

SpecDecorators == Init /\ [][NextDecorators]_vars

\* ------------------------------------------------------------- properties
Range(s) == {s[j] : j \in DOMAIN s}

\* The text of a body: its chunks' data, concatenated.
RECURSIVE Join(_)
Join(chunks) == IF chunks = <<>> THEN <<>> ELSE Head(chunks).data \o Join(Tail(chunks))

\* A text with each '<' and each '>' replaced by its entity, character by character.
Entity(c) == IF c = LT THEN AmpLt ELSE IF c = GT THEN AmpGt ELSE <<c>>
RECURSIVE Escaped(_)
Escaped(s) == IF s = <<>> THEN <<>> ELSE Entity(Head(s)) \o Escaped(Tail(s))

\* The sequence wsgi returned: the chunks drawn from it and those still to come.
Returned(t) == body[t] \o pending[t]

\* The request of thread t has left the chain: dispatch was entered for every
\* index up to the end of the list.
PastLast(t) == pc[t] # "idle" /\ idx[IdxSlot(t)] = Len(middleware)
TerminalRuns(t) == Cardinality({j \in DOMAIN trace[t] : trace[t][j] = TerminalMark})

\* The chain has returned to wsgi, or raised into it.
ChainLeft(t) == pc[t] = "done" \/ (pc[t] \in {"ret", "exc"} /\ stack[t] = <<>>)

\* The exception that reached wsgi, by the kind of failure it is.
Uncaught(t, cls) == pc[t] = "done" /\ exc[t].cls = cls
IsFault(t) == exc[t].cls \notin {"none", "RedirectError", "HttpError"}

\* C1: when the last middleware calls its continuation (or the list is empty),
\* the terminal handler runs exactly once and the request completes normally,
\* not with a fault.
C1_TerminalRunsOnce ==
    \A t \in Threads :
        (pc[t] = "done" /\ PastLast(t)) =>
            (TerminalRuns(t) = 1 /\ outcome[t] = "Completed")

\* Every middleware of the list calls its continuation.
AllCallNext == \A k \in DOMAIN middleware : middleware[k].fn \in CallingKinds

\* C2: for every request, under every interleaving of the threads, the
\* middleware are invoked in list order, none twice and none skipped; when
\* every middleware calls its continuation, each has been invoked exactly once
\* by the time the chain is left.
C2_ChainOrder ==
    \A t \in Threads :
        /\ \A j \in DOMAIN trace[t] : trace[t][j] = j - 1
        /\ (AllCallNext /\ ChainLeft(t)) => Len(trace[t]) = Len(middleware)
C2_Witness ==
    /\ AllCallNext
    /\ Len(middleware) = 2
    /\ pc[1] = "done" /\ Len(trace[1]) = 2
    /\ pc[2] = "call" /\ Len(trace[2]) = 1

\* Every middleware before the short-circuiting one returns its continuation's
\* result unchanged.
EarlierUnchanged(t) ==
    \A k \in 1..shortAt[t].at : middleware[k].fn \in {"pass", "catch"}

\* C3: when the middleware at index k returns without calling its continuation,
\* no middleware after k and no terminal is invoked for the request, and if
\* every earlier middleware returns its continuation's result unchanged, the
\* value k returned is the value wsgi translates into the body.
C3_ShortCircuit ==
    \A t \in Threads :
        shortAt[t].at >= 0 =>
            /\ Len(trace[t]) = shortAt[t].at + 1
            /\ \A j \in DOMAIN trace[t] : trace[t][j] \in 0..shortAt[t].at
            /\ (EarlierUnchanged(t) /\ ChainLeft(t)) =>
                  /\ retval[t] = shortAt[t].value
                  /\ (pc[t] = "done" /\ exc[t] = NoError) =>
                        Returned(t) = TranslateResult(shortAt[t].value).chunks
C3_Witness ==
    \E t \in Threads :
        /\ shortAt[t].at = 1
        /\ Len(middleware) = 2
        /\ shortAt[t].value.kind = "str"
        /\ EarlierUnchanged(t)
        /\ pc[t] = "done"
        /\ body[t] # <<>>

\* C4: whatever the outcome of a request that entered dispatch, each of the
\* three context attributes has been deleted exactly once when wsgi returns,
\* and the thread's ctx then holds none of them; none is deleted earlier.
C4_ReleasedOnce ==
    \A t \in Threads :
        /\ pc[t] = "done" =>
              /\ \A f \in DOMAIN released[t] : released[t][f] = 1
              /\ ctx[CtxSlot(t)] = EmptyCtx
        /\ pc[t] \in {"call", "ret", "exc"} =>
              \A f \in DOMAIN released[t] : released[t][f] = 0
C4_Witness ==
    /\ pc[1] = "done" /\ outcome[1] = "Faulted" /\ released[1]["response"] = 1
    /\ pc[2] = "done" /\ outcome[2] = "Redirected" /\ released[2]["response"] = 1

\* C5: with requests of two threads overlapping, a middleware of a request
\* reads, through the context, the request object made for its own request;
\* the context keeps the objects of the thread's request while it is being
\* dispatched, and the response object of a request holds only headers written
\* for that request.
C5_ContextIsolation ==
    \A t \in Threads :
        /\ trace[t] # <<>> => seenReq[t] = t
        /\ pc[t] \in {"call", "ret", "exc"} =>
              /\ ctx[CtxSlot(t)].request = t
              /\ ctx[CtxSlot(t)].response = t
        /\ \A h \in Range(respObj[t].headers) :
              h[1] = XReqName => h[2] = <<48 + t>>
C5_Witness ==
    /\ pc[2] = "done" /\ trace[2] # <<>>
    /\ pc[1] = "call" /\ Len(trace[1]) = 1
    /\ respObj[1].headers # <<>>

\* C6: a RedirectError with location L and status S that reaches wsgi gives one
\* start_response call with status S and headers containing (Location, L),
\* and an empty body.
C6_Redirect ==
    \A t \in Threads :
        Uncaught(t, "RedirectError") =>
            /\ Len(started[t]) = 1
            /\ started[t][1].status = exc[t].status
            /\ <<LocationName, exc[t].location>> \in Range(started[t][1].headers)
            /\ body[t] = <<>>
C6_Witness ==
    \E t \in Threads :
        /\ Uncaught(t, "RedirectError")
        /\ exc[t].status # respObj[t].status
        /\ Len(started[t][1].headers) = 2

\* C7: an HttpError with status S that reaches wsgi gives status line S and a
\* body whose text is S between the two pieces of minimal HTML, with no room
\* for a traceback.
C7_HttpError ==
    \A t \in Threads :
        Uncaught(t, "HttpError") =>
            /\ Len(started[t]) = 1
            /\ started[t][1].status = exc[t].status
            /\ Join(body[t]) = HtmlOpenH1 \o exc[t].status \o HtmlCloseH1
C7_Witness ==
    \E t \in Threads : Uncaught(t, "HttpError") /\ exc[t].status = StatusNotFound

\* C8: any other exception that reaches wsgi gives status 500 Internal Server
\* Error, an empty header list whatever the response object holds, and a body
\* with the traceback text in which every '<' and '>' is replaced by its entity.
C8_Fault ==
    \A t \in Threads :
        (pc[t] = "done" /\ IsFault(t)) =>
            /\ started[t] = <<[status |-> Status500, headers |-> <<>>]>>
            /\ \E j \in DOMAIN body[t] :
                  /\ body[t][j].data = Escaped(stacks[t])
                  /\ LT \notin Range(body[t][j].data)
                  /\ GT \notin Range(body[t][j].data)
C8_Witness ==
    \E t \in Threads :
        /\ pc[t] = "done" /\ IsFault(t)
        /\ stacks[t] = <<GT>>
        /\ respObj[t].headers # <<>>

\* C9: a request has written exactly one failure log entry when it ended in an
\* unexpected fault, and none when it completed, redirected or ended in a
\* declared HTTP error.
C9_LogIffFault ==
    \A t \in Threads :
        /\ pc[t] = "done" => logs[t] = (IF IsFault(t) THEN 1 ELSE 0)
        /\ pc[t] # "done" => logs[t] = 0
C9_Witness ==
    /\ pc[1] = "done" /\ IsFault(1) /\ logs[1] = 1
    /\ pc[2] = "done" /\ exc[2].cls = "HttpError" /\ logs[2] = 0

\* C10: on every outcome, every chunk of the body returned to the transport is
\* a byte string.
C10_BodyIsBytes ==
    \A t \in Threads :
        pc[t] = "done" => \A j \in DOMAIN body[t] : body[t][j].type = "bytes"

\* C11: the body of a completed request comes from its return value by exactly
\* one rule: a Template gives one chunk, the engine's rendering of its
\* template_name and model; a text gives one chunk, its UTF-8 encoding; None
\* gives no chunk; any other value is returned as it is.
C11_OneRule ==
    \A t \in Threads :
        (pc[t] = "done" /\ exc[t] = NoError) =>
            LET r == retval[t]
            IN /\ r.kind = "template" =>
                     /\ Len(body[t]) = 1
                     /\ body[t][1] = StrChunk(Render(r.text, r.model))
               /\ r.kind = "str" =>
                     /\ Len(body[t]) = 1
                     /\ body[t][1].type = "bytes"
                     /\ body[t][1].data = Utf8Encode(r.text)
                     /\ (r.text = AccentText => body[t][1].data = <<97, 195, 169>>)
               /\ r.kind = "none" => body[t] = <<>>
               /\ r.kind \in {"list", "gen"} => Returned(t) = r.chunks
C11_Witness ==
    /\ pc[1] = "done" /\ exc[1] = NoError /\ retval[1].kind = "template"
    /\ pc[2] = "done" /\ exc[2] = NoError /\ retval[2] = StrValue(AccentText)

\* C12: once get_wsgi_application has been called, no call on the application
\* object, init_middlewares in particular, changes the content or the order of
\* the middleware list that requests are dispatched through.
C12_ChainFrozen == [][running => middleware' = middleware]_vars

\* C13: after init_middlewares the middleware list is in ascending order of
\* priority, and the entries of each priority are those appended with it, in
\* the order in which they were appended.
C13_SortedStable ==
    /\ \A j \in 1..(Len(middleware) - 1) :
          take_second(middleware[j]) <= take_second(middleware[j + 1])
    /\ \A p \in Priorities : WithPriority(middleware, p) = registered[p]
C13_Witness ==
    /\ lastCall.op = "init_middlewares"
    /\ Len(middleware) = 2
    /\ take_second(middleware[1]) = take_second(middleware[2])
    /\ middleware[1].fn = "short" /\ middleware[2].fn = "pass"

\* C20: the application goes from not running to running and never back; the
\* first get_wsgi_application call sets it running; while it runs, a
\* get_wsgi_application call and an assignment to template_engine raise
\* RuntimeError, and no call changes the template engine or the running flag.
C20_RunningOnce ==
    [][ /\ running => (running' /\ template_engine' = template_engine)
        /\ (running /\ lastCall' # lastCall
               /\ lastCall'.op \in {"get_wsgi_application", "template_engine"})
              => lastCall'.err = "RuntimeError"
        /\ (~running /\ lastCall' # lastCall)
              => /\ lastCall'.err = "none"
                 /\ running' = (lastCall'.op = "get_wsgi_application") ]_vars
C20_Witness ==
    /\ running
    /\ lastCall = Call("template_engine", "RuntimeError")
    /\ template_engine # Jinja2TemplateEngine

\* A middleware is doing its post-processing, or waiting for its continuation.
InChain(t) == pc[t] = "call" \/ (pc[t] \in {"ret", "exc"} /\ stack[t] # <<>>)

\* C14: for every request start_response is called exactly once, not while any
\* middleware is still running or has post-processing to do after its
\* continuation returned, with the status and headers the response holds when
\* the chain has returned, and before any body is returned to the transport.
C14_StartOnceAfterChain ==
    \A t \in Threads :
        /\ (InChain(t) \/ pc[t] \in {"idle", "ret", "exc"}) => started[t] = <<>>
        /\ pc[t] = "done" => Len(started[t]) = 1
        /\ body[t] # <<>> => Len(started[t]) = 1
        /\ (pc[t] = "done" /\ exc[t] = NoError) =>
              started[t][1] = [status |-> respObj[t].status,
                               headers |-> respObj[t].headers]
C14_Witness ==
    \E t \in Threads :
        /\ pc[t] = "done" /\ exc[t] = NoError
        /\ \E k \in DOMAIN middleware : middleware[k].fn = "post"
        /\ Len(trace[t]) = 2
        /\ retval[t] = PostProcessed
        /\ body[t] # <<>>

\* C19: every failure raised by the chain or by result translation is taken by
\* exactly one except clause of wsgi: a RedirectError ends the request as
\* Redirected, an HttpError as DeclaredError, any other exception as Faulted;
\* wsgi then returns a response (start_response called once) and the failure
\* does not leave wsgi.
C19_FailureMapped ==
    \A t \in Threads :
        pc[t] = "done" =>
            /\ outcome[t] =
                  (CASE exc[t].cls = "none" -> "Completed"
                     [] exc[t].cls = "RedirectError" -> "Redirected"
                     [] exc[t].cls = "HttpError" -> "DeclaredError"
                     [] OTHER -> "Faulted")
            /\ Len(started[t]) = 1
C19_Witness ==
    /\ pc[1] = "done" /\ retval[1].kind = "template" /\ outcome[1] = "Faulted"
    /\ pc[2] = "done" /\ retval[2].kind = "template" /\ outcome[2] = "Completed"

\* C17: no body chunk of a request is produced after the context's application,
\* request and response attributes have been released, also when the handler
\* returned a generator of chunks.
C17_NoChunkAfterRelease ==
    [][\A t \in Threads :
          Len(body'[t]) > Len(body[t]) => ctx[CtxSlot(t)].response # NoAttr]_vars

\* C18: when wsgi fails while it sets the context up (Request or Response
\* raises after ctx.application was assigned), no context attribute is left
\* set on the thread once wsgi is left.
C18_NoFieldLeft ==
    \A t \in Threads : pc[t] = "idle" => ctx[CtxSlot(t)] = EmptyCtx

\* C15: a handler wrapped by view(path) that returns a dict gives a Template
\* whose template_name is path and whose model is that dict; one that returns
\* any other value (a list, a string, None) gives ValueError and no Template.
C15_ViewOfDict ==
    lastResult.op = "view" =>
        LET r == HandlerReturns(lastResult.fn)
        IN IF r.kind = "dict"
           THEN /\ lastResult.err = "none"
                /\ lastResult.value = TemplateValue(lastResult.path, r.model)
           ELSE /\ lastResult.err = "ValueError"
                /\ lastResult.value.kind # "template"

\* C16: get, post, put and delete, applied with a path to a handler, return the
\* same handler with __web_method__ GET, POST, PUT or DELETE and __web_route__
\* the path; a call of the handler returns what the handler returns and leaves
\* the attributes of every handler as they were.
C16_Stamped ==
    [][ /\ lastResult'.op \in Decorators =>
              /\ lastResult'.returnedFn = lastResult'.fn
              /\ attrs'[lastResult'.fn].route = lastResult'.path
              /\ attrs'[lastResult'.fn].method =
                    (CASE lastResult'.op = "get" -> "GET"
                       [] lastResult'.op = "post" -> "POST"
                       [] lastResult'.op = "put" -> "PUT"
                       [] lastResult'.op = "delete" -> "DELETE")
              /\ \A h \in RouteHandlers \ {lastResult'.fn} : attrs'[h] = attrs[h]
        /\ lastResult'.op = "call" =>
              /\ attrs' = attrs
              /\ lastResult'.value = HandlerReturns(lastResult'.fn) ]_vars
C16_Witness ==
    /\ lastResult.op = "call" /\ lastResult.fn = "hello"
    /\ lastResult.value.kind = "dict"
    /\ attrs["hello"] = Stamp("PUT", LoginPath)
    /\ attrs["hello2"] = Stamp("DELETE", PlainText)

====
